---- MODULE Spec2Model ----
(***************************************************************************)
(* Model of the chat hub of server.js (src/unnamed/part_000) and of the    *)
(* online counter of its browser client (src/public/script.js).            *)
(*                                                                         *)
(* JavaScript values are tagged records: a string is                       *)
(* [t |-> "string", s |-> <<c1, ..., cn>>] with one-character strings ci,  *)
(* undefined is [t |-> "undefined"], and so on.  The users Map is a        *)
(* function whose DOMAIN is the set of keys of the Map.                    *)
(***************************************************************************)
EXTENDS Integers, Sequences, FiniteSets, TLC

VARIABLES
    status,       \* socket id -> "idle" (not yet accepted), "open", "closed"
    users,        \* server.js `users`: socket.id -> { name }
    lastEvent,    \* the inbound event whose handler ran last (of a disconnect
                  \* also `was`: what joinedAs held for the socket; of a
                  \* typing event also `again`: it repeats the event before;
                  \* of a chat message that was broadcast also `now` and
                  \* `rnd`: what Date.now() and Math.random() gave for its id)
    usersBefore,  \* `users` when that handler started
    outbox,       \* the emits of that handler, in program order
    onlineCount,  \* script.js `onlineCount` of the client behind each socket
    joinedAs,     \* history: the raw name of each open socket's last
                  \* acknowledged join
    sanStr,       \* argument of the validation utility under test
    sanMaxLen,    \* maxLen argument of sanitize under test
    sanResult,    \* what the utility returned
    idLog,        \* history: Date.now(), the random suffix and the id of each
                  \* chat message broadcast, in order
    transport,    \* script.js `transport`: null or { kind, conn, ready }, conn
                  \* being the state of the connection behind it
    userName,     \* script.js `userName`
    typing,       \* script.js `typing`
    typingTimer,  \* script.js `typingTimer`: "armed" while its timeout is pending
    messageValue, \* script.js `messageInput.value`
    clientEvent,  \* the listener of script.js that ran last
    clientSent,   \* what that listener sent through the transport, in order
    lastTypingSent,  \* history: the last typing signal sent since the transport
                     \* became ready ("none" if none was)
    typingAtReady    \* history: `typing` when the transport became ready

vars == <<status, users, lastEvent, usersBefore, outbox, onlineCount, joinedAs,
          sanStr, sanMaxLen, sanResult, idLog,
          transport, userName, typing, typingTimer, messageValue, clientEvent,
          clientSent, lastTypingSent, typingAtReady>>

protoVars == <<status, users, lastEvent, usersBefore, outbox, onlineCount,
               joinedAs>>

sanVars == <<sanStr, sanMaxLen, sanResult>>

idVars == <<idLog>>

clientVars == <<transport, userName, typing, typingTimer, messageValue,
                clientEvent, clientSent, lastTypingSent, typingAtReady>>

\* What the handlers of the hub leave alone
nonProtoVars == <<sanVars, idVars, clientVars>>

\* What the validation utilities leave alone
nonSanVars == <<protoVars, idVars, clientVars>>

\* What the listeners of the client leave alone
nonClientVars == <<protoVars, sanVars, idVars>>

-----------------------------------------------------------------------------
(* Bounds of the model *)

NumSockets == 2

MaxNow == 1

MaxStrLen == 4

MaxLenArg == 4

\* The number of chat messages whose ids are logged
MaxSends == 2

-----------------------------------------------------------------------------
(* Program constants *)

NAME_MAX == 40

TEXT_MAX == 1000

\* The length the login form cuts the name to
LOGIN_NAME_MAX == 40

-----------------------------------------------------------------------------
(* JavaScript values *)

JSString(s) == [t |-> "string", s |-> s]

JSUndefined == [t |-> "undefined"]

JSNull == [t |-> "null"]

JSNumber(n) == [t |-> "number", n |-> n]

JSBool(b) == [t |-> "boolean", b |-> b]

JSObject(text) == [t |-> "object", text |-> text]

JSEmptyObject == [t |-> "object"]

\* The characters /\s/ matches and String.prototype.trim strips.
WhiteSpace == {" ", "\t", "\n"}

IsWs(c) == c \in WhiteSpace

Min2(a, b) == IF a <= b THEN a ELSE b

\* str.substring(0, maxLen)
substring0(s, maxLen) == SubSeq(s, 1, Min2(Len(s), maxLen))

\* The first index >= i of s that holds a whitespace character (or not:
\* ws = FALSE), Len(s) + 1 when there is none.
RECURSIVE scan(_, _, _)
scan(s, i, ws) ==
    IF i > Len(s) \/ IsWs(s[i]) = ws THEN i ELSE scan(s, i + 1, ws)

\* The last index <= i of s that holds no whitespace character, 0 when none.
RECURSIVE scanBack(_, _)
scanBack(s, i) ==
    IF i = 0 \/ ~IsWs(s[i]) THEN i ELSE scanBack(s, i - 1)

\* str.replace(/\s+/g, ' ') from index `from` on: match by match, left to
\* right, each maximal run of whitespace becomes one ' '.
RECURSIVE replaceWsRuns(_, _)
replaceWsRuns(s, from) ==
    LET i == scan(s, from, TRUE)
    IN  IF i > Len(s) THEN SubSeq(s, from, Len(s))
        ELSE SubSeq(s, from, i - 1) \o <<" ">>
                 \o replaceWsRuns(s, scan(s, i, FALSE))

\* str.trim()
trim(s) == SubSeq(s, scan(s, 1, FALSE), scanBack(s, Len(s)))

\* sanitize without the final trim
sanitizeNoTrim(str, maxLen) ==
    IF str.t # "string" THEN <<>>
    ELSE replaceWsRuns(substring0(str.s, maxLen), 1)

\* sanitize with the truncation done last instead of first
sanitizeTruncateLast(str, maxLen) ==
    IF str.t # "string" THEN <<>>
    ELSE substring0(trim(replaceWsRuns(str.s, 1)), maxLen)

\* sanitize(str, maxLen): the characters of the string it returns.
sanitize(str, maxLen) ==
    IF str.t # "string" THEN <<>>
    ELSE trim(replaceWsRuns(substring0(str.s, maxLen), 1))

\* `x || null` for a string x
OrNull(s) == IF s = <<>> THEN JSNull ELSE JSString(s)

validateNameNoTrim(raw) == OrNull(sanitizeNoTrim(raw, NAME_MAX))

\* A name that is normalised but not cut to NAME_MAX characters.
validateNameUntruncated(raw) ==
    IF raw.t # "string" THEN JSNull ELSE OrNull(trim(replaceWsRuns(raw.s, 1)))

validateName(raw) == OrNull(sanitize(raw, NAME_MAX))

validateTextNoTrim(raw) == OrNull(sanitizeNoTrim(raw, TEXT_MAX))

\* The text taken as sent, without normalisation.
validateTextRaw(raw) == IF raw.t = "string" THEN OrNull(raw.s) ELSE JSNull

validateText(raw) == OrNull(sanitize(raw, TEXT_MAX))

-----------------------------------------------------------------------------
(* The validation utilities applied to bounded inputs *)

Alphabet == {"a", " ", "\t"}

RECURSIVE StringsUpTo(_)
StringsUpTo(n) ==
    IF n = 0 THEN {<<>>}
    ELSE LET shorter == StringsUpTo(n - 1)
         IN  shorter \cup {Append(s, c) : s \in {x \in shorter : Len(x) = n - 1},
                                            c \in Alphabet}

Repeat(c, n) == [i \in 1..n |-> c]

\* Strings longer than NAME_MAX: the first NAME_MAX characters are blank, or
\* the cut falls inside a run of blanks.
LongStrings ==
    { Repeat(" ", NAME_MAX) \o <<"a">>,
      Repeat("x", NAME_MAX - 1) \o <<" ", " ", "y">>,
      Repeat("x", NAME_MAX + 1) }

SanInputs ==
    {JSString(s) : s \in StringsUpTo(MaxStrLen) \cup LongStrings}
        \cup {JSUndefined, JSNull, JSNumber(7)}

SanMaxLens == 0..MaxLenArg \cup {NAME_MAX}

Pending == [fn |-> "none"]

SanInit ==
    /\ sanStr \in SanInputs
    /\ sanMaxLen \in SanMaxLens
    /\ sanResult = Pending

CallSanitize ==
    /\ sanResult = Pending
    /\ sanResult' = [fn |-> "sanitize", v |-> JSString(sanitize(sanStr, sanMaxLen))]
    /\ UNCHANGED <<sanStr, sanMaxLen>>

CallValidateName ==
    /\ sanResult = Pending
    /\ sanResult' = [fn |-> "validateName", v |-> validateName(sanStr)]
    /\ UNCHANGED <<sanStr, sanMaxLen>>

CallValidateText ==
    /\ sanResult = Pending
    /\ sanResult' = [fn |-> "validateText", v |-> validateText(sanStr)]
    /\ UNCHANGED <<sanStr, sanMaxLen>>

-----------------------------------------------------------------------------
(* The hub: io.on('connection') and the handlers it registers *)

Sockets == 1..NumSockets

\* The sockets of the namespace: those io.emit reaches.  Socket.IO takes a
\* socket out of the namespace before it fires that socket's 'disconnect'.
Connected == {s \in Sockets : status[s] = "open"}

\* users.size
usersSize(u) == Cardinality(DOMAIN u)

\* users.has(id)
usersHas(u, id) == id \in DOMAIN u

\* A set that keeps the entry a key already has.
usersSetKeepFirst(u, id, name) ==
    [k \in DOMAIN u \cup {id} |-> IF k \in DOMAIN u THEN u[k] ELSE [name |-> name]]

\* users.set(id, { name })
usersSet(u, id, name) ==
    [k \in DOMAIN u \cup {id} |-> IF k = id THEN [name |-> name] ELSE u[k]]

\* A delete that removes nothing.
usersDeleteNothing(u, id) == u

\* A delete that clears the map.
usersDeleteAll(u, id) == [k \in {} |-> u[k]]

\* users.delete(id)
usersDelete(u, id) == [k \in DOMAIN u \ {id} |-> u[k]]

Emit(ev, to, data) == [ev |-> ev, to |-> to, data |-> data]

\* An emit to the whole namespace where one to the socket is meant.
socketEmitToAll(s, ev, data) ==
    Emit(ev, {c \in DOMAIN status : status[c] = "open"}, data)

\* An emit to every socket but the one that is meant.
socketEmitToOthers(s, ev, data) ==
    Emit(ev, {c \in DOMAIN status : status[c] = "open" /\ c # s}, data)

\* socket.emit(ev, data)
socketEmit(s, ev, data) == Emit(ev, {s}, data)

\* A broadcast that does not leave the sender out.
socketBroadcastEmitAll(conn, s, ev, data) == Emit(ev, conn, data)

\* socket.broadcast.emit(ev, data), with `conn` the sockets of the namespace
socketBroadcastEmit(conn, s, ev, data) == Emit(ev, conn \ {s}, data)

\* io.emit(ev, data)
ioEmit(conn, ev, data) == Emit(ev, conn, data)

\* The count read before the registry is changed.
broadcastOnlineStale(conn, u) ==
    ioEmit(conn, "online_count", [count |-> usersSize(users)])

\* broadcastOnline(): io.emit('online_count', { count: users.size })
broadcastOnline(conn, u) == ioEmit(conn, "online_count", [count |-> usersSize(u)])

\* The texts of the notices are the name followed by a fixed phrase.
JOIN_PHRASE == " prisoedinilsya(as') k chatu"

LEAVE_PHRASE == " vyshel(la) iz chata"

ERR_BAD_NAME == "Nekorrektnoe imya pol'zovatelya."

ERR_JOIN == "Oshibka pri vhode v chat."

ERR_SEND == "Proizoshla oshibka pri otpravke soobscheniya."

ERR_JOIN_FIRST == "Snachala vvedite imya pol'zovatelya."

joinNotice(name) == [type |-> "join", text |-> name \o <<JOIN_PHRASE>>]

\* A leave notice sent with the type of the join notice.
leaveNoticeAsJoin(name) == [type |-> "join", text |-> name \o <<LEAVE_PHRASE>>]

leaveNotice(name) == [type |-> "leave", text |-> name \o <<LEAVE_PHRASE>>]

\* payload?.text
optionalText(payload) ==
    IF payload.t = "object" /\ "text" \in DOMAIN payload THEN payload.text
    ELSE JSUndefined

\* !!v
ToBoolean(v) ==
    CASE v.t = "boolean" -> v.b
      [] v.t = "string" -> v.s # <<>>
      [] v.t = "number" -> v.n # 0
      [] v.t = "object" -> TRUE
      [] OTHER -> FALSE

\* Number.isFinite(count)
IsFiniteNumber(c) == c \in Int

\* script.js socket.on('online_count', ({ count }) => ...): the new value of
\* the client's onlineCount.
onOnlineCount(cur, payload) ==
    IF IsFiniteNumber(payload.count) THEN payload.count ELSE cur

\* The client behind socket s handles the online_count events of `box`
\* addressed to it, in the order sent.  Socket.IO delivers the events of one
\* connection in order and without loss; the model delivers them at once.
RECURSIVE clientReceive(_, _, _, _)
clientReceive(box, i, s, cur) ==
    IF i > Len(box) THEN cur
    ELSE IF box[i].ev = "online_count" /\ s \in box[i].to
         THEN clientReceive(box, i + 1, s, onOnlineCount(cur, box[i].data))
         ELSE clientReceive(box, i + 1, s, cur)

Deliver(box, oc) == [s \in Sockets |-> clientReceive(box, 1, s, oc[s])]

-----------------------------------------------------------------------------
(* Inputs *)

LongRawName == Repeat("x", NAME_MAX - 1) \o <<" ", " ", "y">>

RawNames ==
    { JSString(<<" ", "a", " ">>),
      JSString(<<"a", " ", "\t", "b">>),
      JSString(LongRawName),
      JSString(<<>>),
      JSString(<<" ", "\t">>),
      JSNumber(7) }

ChatPayloads ==
    { JSObject(JSString(<<" ", "h", "\n", " ", "i", " ">>)),
      JSObject(JSString(<<>>)),
      JSObject(JSString(<<" ", "\n">>)),
      JSObject(JSNumber(7)),
      JSEmptyObject,
      JSUndefined }

TypingFlags == {JSBool(TRUE), JSBool(FALSE), JSUndefined}

\* The values of Math.random().toString(36).slice(2, 8) the model draws from
RandomSuffixes == {"r0", "r1"}

\* The values of Date.now() the model draws from; a second call in the same
\* handler returns the same value or the next.
Times == 0..MaxNow

-----------------------------------------------------------------------------
(* Initial state and handlers *)

NotJoined == [t |-> "none"]

\* The history of acknowledged joins: socket s sent `raw` and the handler
\* answered with a 'joined' event.
Acknowledge(box, s, raw) ==
    IF \E i \in 1..Len(box) : box[i].ev = "joined" /\ s \in box[i].to
    THEN [joinedAs EXCEPT ![s] = raw]
    ELSE joinedAs

ProtoInit ==
    /\ status = [s \in Sockets |-> "idle"]
    /\ users = [k \in {} |-> [name |-> <<>>]]
    /\ lastEvent = [ev |-> "none"]
    /\ usersBefore = [k \in {} |-> [name |-> <<>>]]
    /\ outbox = <<>>
    /\ onlineCount = [s \in Sockets |-> 0]
    /\ joinedAs = [s \in Sockets |-> NotJoined]

\* io.on('connection', socket => ...)
Connection(s) ==
    /\ status[s] = "idle"
    /\ status' = [status EXCEPT ![s] = "open"]
    /\ lastEvent' = [ev |-> "connection", id |-> s]
    /\ usersBefore' = users
    /\ outbox' = <<>>
    /\ UNCHANGED <<users, onlineCount, joinedAs>>

\* socket.on('join', rawName => ...)
Join(s, rawName) ==
    /\ status[s] = "open"
    /\ LET name == validateName(rawName)
       IN  IF name.t = "null"
           THEN /\ outbox' = <<socketEmit(s, "error_message", ERR_BAD_NAME)>>
                /\ users' = users
           ELSE /\ users' = usersSet(users, s, name.s)
                /\ outbox' = << socketBroadcastEmit(Connected, s, "system_message",
                                                    joinNotice(name.s)),
                                socketEmit(s, "joined", [name |-> name.s]),
                                broadcastOnline(Connected, users') >>
    /\ onlineCount' = Deliver(outbox', onlineCount)
    /\ joinedAs' = Acknowledge(outbox', s, rawName)
    /\ lastEvent' = [ev |-> "join", id |-> s, arg |-> rawName]
    /\ usersBefore' = users
    /\ UNCHANGED status

\* An id made of the time alone.
messageIdTimeOnly(now, rnd) == <<now>>

\* `${Date.now()}-${Math.random().toString(36).slice(2, 8)}`: the parts of
\* the template string.
messageId(now, rnd) == <<now, "-", rnd>>

\* socket.on('chat_message', payload => ...)
ChatMessage(s, payload) ==
    /\ status[s] = "open"
    /\ IF ~usersHas(users, s)
       THEN /\ outbox' = <<socketEmit(s, "error_message", ERR_JOIN_FIRST)>>
            /\ lastEvent' = [ev |-> "chat_message", id |-> s, arg |-> payload]
       ELSE LET text == validateText(optionalText(payload))
            IN  IF text.t = "null"
                THEN /\ outbox' = <<>>
                     /\ lastEvent' = [ev |-> "chat_message", id |-> s,
                                      arg |-> payload]
                ELSE \E t1 \in Times, rnd \in RandomSuffixes :
                     \E t2 \in {t1, Min2(t1 + 1, MaxNow)} :
                        /\ outbox' = << ioEmit(Connected, "chat_message",
                                               [id |-> messageId(t1, rnd),
                                                author |-> users[s].name,
                                                text |-> text.s,
                                                ts |-> t2]) >>
                        /\ lastEvent' = [ev |-> "chat_message", id |-> s,
                                         arg |-> payload,
                                         now |-> t1, rnd |-> rnd]
    /\ onlineCount' = Deliver(outbox', onlineCount)
    /\ usersBefore' = users
    /\ UNCHANGED <<status, users, joinedAs>>

\* Whether the event handled last was this same typing event: the same socket
\* sending the same flag twice in a row.
SameTypingAgain(s, isTyping) ==
    /\ lastEvent.ev = "typing"
    /\ lastEvent.id = s
    /\ lastEvent.arg = isTyping

\* A relay that passes on only the changes of a socket's typing state.
TypingCoalesced(s, isTyping) ==
    /\ status[s] = "open"
    /\ IF ~usersHas(users, s) \/ SameTypingAgain(s, isTyping)
       THEN outbox' = <<>>
       ELSE outbox' = << ioEmit(Connected, "typing",
                                [name |-> users[s].name,
                                 isTyping |-> ToBoolean(isTyping),
                                 id |-> s]) >>
    /\ onlineCount' = Deliver(outbox', onlineCount)
    /\ lastEvent' = [ev |-> "typing", id |-> s, arg |-> isTyping,
                     again |-> SameTypingAgain(s, isTyping)]
    /\ usersBefore' = users
    /\ UNCHANGED <<status, users, joinedAs>>

\* socket.on('typing', isTyping => ...)
Typing(s, isTyping) ==
    /\ status[s] = "open"
    /\ IF ~usersHas(users, s)
       THEN outbox' = <<>>
       ELSE outbox' = << ioEmit(Connected, "typing",
                                [name |-> users[s].name,
                                 isTyping |-> ToBoolean(isTyping),
                                 id |-> s]) >>
    /\ onlineCount' = Deliver(outbox', onlineCount)
    /\ lastEvent' = [ev |-> "typing", id |-> s, arg |-> isTyping,
                     again |-> SameTypingAgain(s, isTyping)]
    /\ usersBefore' = users
    /\ UNCHANGED <<status, users, joinedAs>>

\* socket.on('disconnect', reason => ...)
Disconnect(s) ==
    /\ status[s] = "open"
    /\ status' = [status EXCEPT ![s] = "closed"]
    /\ LET conn == Connected \ {s}
       IN  /\ users' = usersDelete(users, s)
           /\ IF usersHas(users, s) /\ users[s].name # <<>>
              THEN outbox' = << socketBroadcastEmit(conn, s, "system_message",
                                                    leaveNotice(users[s].name)),
                                broadcastOnline(conn, users') >>
              ELSE outbox' = <<>>
    /\ onlineCount' = Deliver(outbox', onlineCount)
    /\ joinedAs' = [joinedAs EXCEPT ![s] = NotJoined]
    /\ lastEvent' = [ev |-> "disconnect", id |-> s, was |-> joinedAs[s]]
    /\ usersBefore' = users

\* A handler whose k-th emit throws inside try { ... } catch: the emits before
\* it are out, the rest of the try block is skipped, and the catch block
\* sends its error_message to the socket.
ThrownInTry(planned, k, s, text) ==
    SubSeq(planned, 1, k - 1) \o <<socketEmit(s, "error_message", text)>>

\* A handler without try/catch whose k-th emit throws: the emits before it
\* are out and the exception leaves the handler.
ThrownOut(planned, k) == SubSeq(planned, 1, k - 1)

\* An exception has left a handler: nothing in server.js catches it, and the
\* process ends.
Crashed == "caught" \in DOMAIN lastEvent /\ ~lastEvent.caught

\* socket.on('join'), the k-th emit of the handler throwing
JoinFault(s, rawName, k) ==
    /\ status[s] = "open"
    /\ LET name == validateName(rawName)
           planned ==
               IF name.t = "null"
               THEN <<socketEmit(s, "error_message", ERR_BAD_NAME)>>
               ELSE << socketBroadcastEmit(Connected, s, "system_message",
                                           joinNotice(name.s)),
                       socketEmit(s, "joined", [name |-> name.s]),
                       broadcastOnline(Connected, usersSet(users, s, name.s)) >>
       IN  /\ k \in 1..Len(planned)
           /\ users' = IF name.t = "null" THEN users
                       ELSE usersSet(users, s, name.s)
           /\ outbox' = ThrownInTry(planned, k, s, ERR_JOIN)
    /\ onlineCount' = Deliver(outbox', onlineCount)
    /\ joinedAs' = Acknowledge(outbox', s, rawName)
    /\ lastEvent' = [ev |-> "join", id |-> s, arg |-> rawName,
                     fault |-> k, caught |-> TRUE]
    /\ usersBefore' = users
    /\ UNCHANGED status

\* socket.on('chat_message'), the k-th emit of the handler throwing
ChatMessageFault(s, payload, k) ==
    /\ status[s] = "open"
    /\ LET text == validateText(optionalText(payload))
           planned ==
               IF ~usersHas(users, s)
               THEN <<socketEmit(s, "error_message", ERR_JOIN_FIRST)>>
               ELSE IF text.t = "null" THEN <<>>
               ELSE <<ioEmit(Connected, "chat_message", [author |-> users[s].name,
                                                         text |-> text.s])>>
       IN  /\ k \in 1..Len(planned)
           /\ outbox' = ThrownInTry(planned, k, s, ERR_SEND)
    /\ onlineCount' = Deliver(outbox', onlineCount)
    /\ lastEvent' = [ev |-> "chat_message", id |-> s, arg |-> payload,
                     fault |-> k, caught |-> TRUE]
    /\ usersBefore' = users
    /\ UNCHANGED <<status, users, joinedAs>>

\* socket.on('typing'), the emit of the handler throwing
TypingFault(s, isTyping, k) ==
    /\ status[s] = "open"
    /\ LET planned ==
               IF ~usersHas(users, s) THEN <<>>
               ELSE <<ioEmit(Connected, "typing",
                             [name |-> users[s].name,
                              isTyping |-> ToBoolean(isTyping),
                              id |-> s])>>
       IN  /\ k \in 1..Len(planned)
           /\ outbox' = ThrownOut(planned, k)
    /\ onlineCount' = Deliver(outbox', onlineCount)
    /\ lastEvent' = [ev |-> "typing", id |-> s, arg |-> isTyping,
                     fault |-> k, caught |-> FALSE]
    /\ usersBefore' = users
    /\ UNCHANGED <<status, users, joinedAs>>

\* socket.on('disconnect'), the k-th emit of the handler throwing
DisconnectFault(s, k) ==
    /\ status[s] = "open"
    /\ status' = [status EXCEPT ![s] = "closed"]
    /\ LET conn == Connected \ {s}
           planned ==
               IF usersHas(users, s) /\ users[s].name # <<>>
               THEN << socketBroadcastEmit(conn, s, "system_message",
                                           leaveNotice(users[s].name)),
                       broadcastOnline(conn, usersDelete(users, s)) >>
               ELSE <<>>
       IN  /\ k \in 1..Len(planned)
           /\ users' = usersDelete(users, s)
           /\ outbox' = ThrownOut(planned, k)
    /\ onlineCount' = Deliver(outbox', onlineCount)
    /\ joinedAs' = [joinedAs EXCEPT ![s] = NotJoined]
    /\ lastEvent' = [ev |-> "disconnect", id |-> s, was |-> joinedAs[s],
                     fault |-> k, caught |-> FALSE]
    /\ usersBefore' = users

-----------------------------------------------------------------------------
(* The client, script.js *)

\* let transport = null
NoTransport == [kind |-> "none"]

\* transport?.ready
Ready(tr) == tr.kind # "none" /\ tr.ready

\* sanitizeText(str, max) of a string: collapse, trim, then slice(0, max)
sanitizeText(s, max) == substring0(trim(replaceWsRuns(s, 1)), max)

\* Transport.sendMessage(text): what goes out
sendMessage(tr, text) ==
    LET safe == sanitizeText(text, TEXT_MAX)
    IN  IF safe = <<>> \/ ~Ready(tr) THEN <<>>
        ELSE <<[ev |-> "chat_message", text |-> safe]>>

\* Transport.setTyping(state): what goes out
setTyping(tr, state) ==
    IF ~Ready(tr) THEN <<>> ELSE <<[ev |-> "typing", isTyping |-> state]>>

SignalName(b) == IF b THEN "true" ELSE "false"

\* The last typing signal sent, after a listener that sent `box`
NoteTyping(box) ==
    IF \E i \in 1..Len(box) : box[i].ev = "typing"
    THEN SignalName(box[Len(box)].isTyping)
    ELSE lastTypingSent

\* What the user may type into the login form and the message field
LoginNames == {<<" ", "a", " ">>, <<" ">>}

InputValues == {<<"h", " ", " ", "i">>, <<"o", "k">>, <<" ">>}

TransportKinds == {"socketio", "ws"}

\* loginForm 'submit' listener, with Transport.connect(name); the form is
\* submitted with a valid name once.
LoginSubmit(rawName, kind) ==
    /\ transport = NoTransport
    /\ LET name == sanitizeText(rawName, LOGIN_NAME_MAX)
       IN  IF name = <<>>
           THEN UNCHANGED <<transport, userName>>
           ELSE /\ userName' = name
                /\ transport' = [kind |-> kind, conn |-> "connecting",
                                 ready |-> FALSE]
    /\ clientEvent' = "login"
    /\ clientSent' = <<>>
    /\ UNCHANGED <<typing, typingTimer, messageValue, lastTypingSent,
                   typingAtReady>>

\* socket.on('connect') and ws 'open': a Socket.IO client connects again
\* after a disconnect, a WebSocket opens once.
OnConnect ==
    /\ transport # NoTransport
    /\ \/ transport.conn = "connecting"
       \/ transport.kind = "socketio" /\ transport.conn = "closed"
    /\ transport' = [transport EXCEPT !.conn = "open", !.ready = TRUE]
    /\ clientSent' = <<[ev |-> "join", name |-> userName]>>
    /\ clientEvent' = "connect"
    /\ lastTypingSent' = "none"
    /\ typingAtReady' = typing
    /\ UNCHANGED <<userName, typing, typingTimer, messageValue>>

\* socket.on('disconnect') and ws 'close'
OnDisconnect ==
    /\ transport # NoTransport
    /\ transport.conn = "open"
    /\ transport' = [transport EXCEPT !.conn = "closed", !.ready = FALSE]
    /\ clientSent' = <<>>
    /\ clientEvent' = "disconnect"
    /\ lastTypingSent' = "none"
    /\ UNCHANGED <<userName, typing, typingTimer, messageValue, typingAtReady>>

\* An input listener that signals typing on every keystroke.
InputEveryKeystroke(value) ==
    /\ transport # NoTransport
    /\ messageValue' = value
    /\ clientSent' = setTyping(transport, TRUE)
    /\ typing' = TRUE
    /\ typingTimer' = "armed"
    /\ clientEvent' = "input"
    /\ lastTypingSent' = NoteTyping(clientSent')
    /\ UNCHANGED <<transport, userName, typingAtReady>>

\* messageInput 'input' listener; the field is enabled by the login.
InputEvent(value) ==
    /\ transport # NoTransport
    /\ messageValue' = value
    /\ clientSent' = IF ~typing THEN setTyping(transport, TRUE) ELSE <<>>
    /\ typing' = TRUE
    /\ typingTimer' = "armed"
    /\ clientEvent' = "input"
    /\ lastTypingSent' = NoteTyping(clientSent')
    /\ UNCHANGED <<transport, userName, typingAtReady>>

\* The callback of setTimeout(..., TYPING_DEBOUNCE)
TimerFire ==
    /\ typingTimer = "armed"
    /\ typing' = FALSE
    /\ clientSent' = setTyping(transport, FALSE)
    /\ typingTimer' = "none"
    /\ clientEvent' = "timer"
    /\ lastTypingSent' = NoteTyping(clientSent')
    /\ UNCHANGED <<transport, userName, messageValue, typingAtReady>>

\* messageForm 'submit' listener
MessageSubmit ==
    /\ transport # NoTransport
    /\ clientSent' = sendMessage(transport, messageValue)
                        \o (IF typing THEN setTyping(transport, FALSE) ELSE <<>>)
    /\ messageValue' = <<>>
    /\ typing' = FALSE
    /\ typingTimer' = IF typing THEN "none" ELSE typingTimer
    /\ clientEvent' = "submit"
    /\ lastTypingSent' = NoteTyping(clientSent')
    /\ UNCHANGED <<transport, userName, typingAtReady>>

SanIdle ==
    /\ sanStr = JSUndefined
    /\ sanMaxLen = 0
    /\ sanResult = Pending

IdIdle == idLog = <<>>

\* script.js before the login form is submitted
ClientInit ==
    /\ transport = NoTransport
    /\ userName = <<>>
    /\ typing = FALSE
    /\ typingTimer = "none"
    /\ messageValue = <<>>
    /\ clientEvent = "none"
    /\ clientSent = <<>>
    /\ lastTypingSent = "none"
    /\ typingAtReady = FALSE

Init == ProtoInit /\ SanIdle /\ IdIdle /\ ClientInit

Next ==
    \/ \E s \in Sockets : Connection(s) /\ UNCHANGED nonProtoVars
    \/ \E s \in Sockets, rawName \in RawNames : Join(s, rawName) /\ UNCHANGED nonProtoVars
    \/ \E s \in Sockets, payload \in ChatPayloads :
           ChatMessage(s, payload) /\ UNCHANGED nonProtoVars
    \/ \E s \in Sockets, isTyping \in TypingFlags :
           Typing(s, isTyping) /\ UNCHANGED nonProtoVars
    \/ \E s \in Sockets : Disconnect(s) /\ UNCHANGED nonProtoVars

Spec == Init /\ [][Next]_vars

SanitizeInit == ProtoInit /\ SanInit /\ IdIdle /\ ClientInit

SanitizeNext ==
    \/ CallSanitize /\ UNCHANGED nonSanVars
    \/ CallValidateName /\ UNCHANGED nonSanVars
    \/ CallValidateText /\ UNCHANGED nonSanVars

SanitizeSpec == SanitizeInit /\ [][SanitizeNext]_vars

\* The inputs of the runs that log message ids
IdNames == {JSString(<<" ", "a", " ">>)}

IdPayloads == {JSObject(JSString(<<" ", "h", "\n", " ", "i", " ">>)),
               JSObject(JSString(<<>>))}

\* The id the last handler broadcast, with the two values it was made of.
LogId(box) ==
    IF \E i \in 1..Len(box) : box[i].ev = "chat_message"
    THEN Append(idLog, [id |-> box[1].data.id,
                        now |-> lastEvent'.now,
                        rnd |-> lastEvent'.rnd,
                        by |-> lastEvent'.id])
    ELSE idLog

IdNext ==
    \/ \E s \in Sockets : Connection(s) /\ UNCHANGED nonProtoVars
    \/ \E s \in Sockets, rawName \in IdNames :
           Join(s, rawName) /\ UNCHANGED nonProtoVars
    \/ \E s \in Sockets, payload \in IdPayloads :
           /\ Len(idLog) < MaxSends
           /\ ChatMessage(s, payload)
           /\ idLog' = LogId(outbox')
           /\ UNCHANGED <<sanVars, clientVars>>

IdSpec == Init /\ [][IdNext]_vars

\* The most emits one handler makes (join: notice, acknowledgment, count)
MaxEmits == 3

FaultPoints == 1..MaxEmits

\* The inputs of the runs with faults
FaultNames == {JSString(<<" ", "a", " ">>), JSString(<<>>)}

FaultPayloads == {JSObject(JSString(<<" ", "h", "\n", " ", "i", " ">>)),
                  JSObject(JSString(<<>>))}

\* The hub with an emit that may throw in any handler.
FaultNext ==
    \/ \E s \in Sockets : ~Crashed /\ Connection(s) /\ UNCHANGED nonProtoVars
    \/ \E s \in Sockets, rawName \in FaultNames :
           ~Crashed /\ Join(s, rawName) /\ UNCHANGED nonProtoVars
    \/ \E s \in Sockets : ~Crashed /\ Disconnect(s) /\ UNCHANGED nonProtoVars
    \/ \E s \in Sockets, rawName \in FaultNames, k \in FaultPoints :
           ~Crashed /\ JoinFault(s, rawName, k) /\ UNCHANGED nonProtoVars
    \/ \E s \in Sockets, payload \in FaultPayloads, k \in FaultPoints :
           ~Crashed /\ ChatMessageFault(s, payload, k) /\ UNCHANGED nonProtoVars
    \/ \E s \in Sockets, isTyping \in TypingFlags, k \in FaultPoints :
           ~Crashed /\ TypingFault(s, isTyping, k) /\ UNCHANGED nonProtoVars
    \/ \E s \in Sockets, k \in FaultPoints :
           ~Crashed /\ DisconnectFault(s, k) /\ UNCHANGED nonProtoVars

FaultSpec == Init /\ [][FaultNext]_vars

ClientNext ==
    \/ \E rawName \in LoginNames, kind \in TransportKinds :
           LoginSubmit(rawName, kind) /\ UNCHANGED nonClientVars
    \/ OnConnect /\ UNCHANGED nonClientVars
    \/ OnDisconnect /\ UNCHANGED nonClientVars
    \/ \E value \in InputValues : InputEvent(value) /\ UNCHANGED nonClientVars
    \/ TimerFire /\ UNCHANGED nonClientVars
    \/ MessageSubmit /\ UNCHANGED nonClientVars

\* A pending timeout fires unless it is cleared for good: the user pauses for
\* TYPING_DEBOUNCE milliseconds at some point.
ClientSpec ==
    Init /\ [][ClientNext]_vars /\ WF_vars(TimerFire /\ UNCHANGED nonClientVars)

-----------------------------------------------------------------------------
(* Reference definitions the properties are stated with.  They are written *)
(* from the wording of the properties, character by character, and not     *)
(* from the code.                                                          *)

\* The first n characters of s
RefTruncate(s, n) == [i \in 1..(IF Len(s) <= n THEN Len(s) ELSE n) |-> s[i]]

\* s with every maximal run of whitespace replaced by one space
RECURSIVE RefCollapseFrom(_, _, _)
RefCollapseFrom(s, i, acc) ==
    IF i > Len(s) THEN acc
    ELSE IF s[i] \in WhiteSpace
         THEN IF i > 1 /\ s[i - 1] \in WhiteSpace
              THEN RefCollapseFrom(s, i + 1, acc)
              ELSE RefCollapseFrom(s, i + 1, Append(acc, " "))
         ELSE RefCollapseFrom(s, i + 1, Append(acc, s[i]))

RefCollapse(s) == RefCollapseFrom(s, 1, <<>>)

\* s without its leading whitespace
RECURSIVE RefTrimLeft(_)
RefTrimLeft(s) ==
    IF s = <<>> \/ Head(s) \notin WhiteSpace THEN s ELSE RefTrimLeft(Tail(s))

\* s without its trailing whitespace
RECURSIVE RefTrimRight(_)
RefTrimRight(s) ==
    IF s = <<>> \/ s[Len(s)] \notin WhiteSpace THEN s
    ELSE RefTrimRight(SubSeq(s, 1, Len(s) - 1))

\* s without its leading and trailing whitespace
RefTrim(s) == RefTrimRight(RefTrimLeft(s))

\* Collapse, then trim, then truncate
RefCollapseTrimTruncate(s, n) == RefTruncate(RefTrim(RefCollapse(s)), n)

\* Truncate, then collapse, then trim
RefTruncateCollapseTrim(s, n) == RefTrim(RefCollapse(RefTruncate(s, n)))

\* The normalized form of a raw name or text; the empty string for a value
\* that is no string.
RefNormalized(raw, n) ==
    IF raw.t = "string" THEN RefTruncateCollapseTrim(raw.s, n) ELSE <<>>

\* The indices of the emits of the last handler that are `ev` events
\* addressed to socket c
EventsTo(ev, c) == {i \in 1..Len(outbox) : outbox[i].ev = ev /\ c \in outbox[i].to}

\* The indices of the emits of the last handler that are `ev` events
EventsOf(ev) == {i \in 1..Len(outbox) : outbox[i].ev = ev}

\* The connections that have had a join acknowledged and are not closed
JoinedConnections == {s \in Sockets : joinedAs[s] # NotJoined /\ status[s] = "open"}

\* The last event is the disconnect of a connection that had joined.
JoinedLeft == lastEvent.ev = "disconnect" /\ lastEvent.was # NotJoined

\* The other entries of the registry are as they were before the last event.
OthersUntouched(s) ==
    \A k \in Sockets \ {s} :
        /\ (k \in DOMAIN users) = (k \in DOMAIN usersBefore)
        /\ k \in DOMAIN users => users[k] = usersBefore[k]

-----------------------------------------------------------------------------
(* Properties *)

\* C1: after every event the registry holds exactly the connections that
\* completed a successful join and have not disconnected, each once, so its
\* size is their number.
C1_RegistryIsJoinedConnections ==
    /\ DOMAIN users = JoinedConnections
    /\ usersSize(users) = Cardinality(JoinedConnections)

\* A joined connection has disconnected while another one stays joined.
C1_Witness ==
    /\ JoinedLeft
    /\ usersSize(users) = 1
    /\ Cardinality(DOMAIN usersBefore) = 2
    /\ Cardinality(JoinedConnections) = 1

\* C2: every online_count event carries the size the registry has after the
\* join or disconnect that triggered it, and after each event the count last
\* delivered to every joined participant is the current size of the registry.
C2_OnlineCountIsCurrent ==
    /\ \A i \in EventsOf("online_count") :
          /\ lastEvent.ev \in {"join", "disconnect"}
          /\ outbox[i].data.count = Cardinality(DOMAIN users)
    /\ \A s \in DOMAIN users : onlineCount[s] = Cardinality(DOMAIN users)

\* A disconnect has brought the count of the remaining participant down.
C2_Witness ==
    /\ lastEvent.ev = "disconnect"
    /\ EventsOf("online_count") # {}
    /\ \E s \in DOMAIN users : onlineCount[s] = 1 /\ Cardinality(DOMAIN usersBefore) = 2

\* C3: the disconnect of a joined connection removes it from the registry,
\* sends exactly one leave notice and exactly one online_count with the new
\* size to every remaining connection and nothing to the leaver; the
\* disconnect of a connection that never joined sends nothing and leaves the
\* registry unchanged.
C3_Disconnect ==
    lastEvent.ev = "disconnect" =>
        LET s == lastEvent.id
        IN  IF lastEvent.was # NotJoined
            THEN /\ s \in DOMAIN usersBefore
                 /\ s \notin DOMAIN users
                 /\ OthersUntouched(s)
                 /\ \A i \in 1..Len(outbox) :
                        /\ outbox[i].ev \in {"system_message", "online_count"}
                        /\ s \notin outbox[i].to
                 /\ Cardinality(EventsOf("system_message")) = 1
                 /\ Cardinality(EventsOf("online_count")) = 1
                 /\ \A c \in Connected :
                        /\ Cardinality(EventsTo("system_message", c)) = 1
                        /\ \A i \in EventsTo("system_message", c) :
                               outbox[i].data.type = "leave"
                        /\ Cardinality(EventsTo("online_count", c)) = 1
                        /\ \A i \in EventsTo("online_count", c) :
                               outbox[i].data.count = Cardinality(DOMAIN usersBefore) - 1
            ELSE /\ outbox = <<>>
                 /\ users = usersBefore

\* A joined connection has disconnected while another connection is open.
C3_Witness ==
    /\ JoinedLeft
    /\ Connected # {}
    /\ Len(outbox) = 2

\* C4: a chat_message from a connection that is not in the registry, whatever
\* its payload, produces exactly one error_message, to that connection only,
\* no chat_message event, and leaves the registry unchanged.
C4_ChatBeforeJoin ==
    (lastEvent.ev = "chat_message" /\ lastEvent.id \notin JoinedConnections) =>
        /\ Len(outbox) = 1
        /\ outbox[1].ev = "error_message"
        /\ outbox[1].to = {lastEvent.id}
        /\ EventsOf("chat_message") = {}
        /\ users = usersBefore

\* An unjoined connection has sent a well-formed message while another
\* connection is joined.
C4_Witness ==
    /\ lastEvent.ev = "chat_message"
    /\ lastEvent.id \notin JoinedConnections
    /\ RefNormalized(optionalText(lastEvent.arg), TEXT_MAX) # <<>>
    /\ DOMAIN users # {}
    /\ Len(outbox) = 1

\* C5: a chat_message from a joined connection whose text is not empty after
\* normalization produces exactly one chat_message event, to every connected
\* connection (the sender and the unjoined ones included), with the sender's
\* registered name as author and the normalized text as text.
C5_ChatBroadcast ==
    (/\ lastEvent.ev = "chat_message"
     /\ lastEvent.id \in JoinedConnections
     /\ RefNormalized(optionalText(lastEvent.arg), TEXT_MAX) # <<>>) =>
        /\ Len(outbox) = 1
        /\ outbox[1].ev = "chat_message"
        /\ outbox[1].to = Connected
        /\ lastEvent.id \in outbox[1].to
        /\ outbox[1].data.author = usersBefore[lastEvent.id].name
        /\ outbox[1].data.author = users[lastEvent.id].name
        /\ outbox[1].data.text = RefNormalized(optionalText(lastEvent.arg), TEXT_MAX)

\* A joined connection has sent a text that normalization changes, and a
\* connection that has not joined receives it.
C5_Witness ==
    /\ lastEvent.ev = "chat_message"
    /\ lastEvent.id \in JoinedConnections
    /\ Len(outbox) = 1
    /\ outbox[1].data.text # optionalText(lastEvent.arg).s
    /\ \E c \in outbox[1].to : c \notin DOMAIN users

\* C6: a chat_message from a joined connection whose text is empty after
\* normalization (empty, whitespace only, missing payload, missing or
\* non-string text) produces no outbound event at all.
C6_EmptyChatDropped ==
    (/\ lastEvent.ev = "chat_message"
     /\ lastEvent.id \in JoinedConnections
     /\ RefNormalized(optionalText(lastEvent.arg), TEXT_MAX) = <<>>) =>
        outbox = <<>>

\* A joined connection has sent a whitespace-only text while another
\* connection is open.
C6_Witness ==
    /\ lastEvent.ev = "chat_message"
    /\ lastEvent.id \in JoinedConnections
    /\ lastEvent.arg = JSObject(JSString(<<" ", "\n">>))
    /\ Cardinality(Connected) = 2
    /\ outbox = <<>>

\* C7: a join whose name fails validation (not a string, empty, or empty
\* after normalization) produces exactly one error_message, to the joining
\* connection, and nothing else, and changes no state.
C7_RejectedJoin ==
    (lastEvent.ev = "join" /\ RefNormalized(lastEvent.arg, NAME_MAX) = <<>>) =>
        /\ Len(outbox) = 1
        /\ outbox[1].ev = "error_message"
        /\ outbox[1].to = {lastEvent.id}
        /\ users = usersBefore
        /\ (lastEvent.id \in DOMAIN users) = (joinedAs[lastEvent.id] # NotJoined)

\* An unjoined connection has sent a whitespace-only name while another
\* connection is joined, and is still unjoined.
C7_Witness ==
    /\ lastEvent.ev = "join"
    /\ lastEvent.arg = JSString(<<" ", "\t">>)
    /\ lastEvent.id \notin DOMAIN users
    /\ DOMAIN users # {}
    /\ Len(outbox) = 1

\* C8: a successful join registers the participant and then sends, in this
\* order and in one step, one join notice to every connection but the joiner,
\* one joined acknowledgment to the joiner only, and one online_count to all
\* connections with a count that includes the joiner.
C8_SuccessfulJoin ==
    (lastEvent.ev = "join" /\ RefNormalized(lastEvent.arg, NAME_MAX) # <<>>) =>
        LET s == lastEvent.id
        IN  /\ s \in DOMAIN users
            /\ OthersUntouched(s)
            /\ Len(outbox) = 3
            /\ outbox[1].ev = "system_message"
            /\ outbox[1].data.type = "join"
            /\ outbox[1].to = Connected \ {s}
            /\ outbox[2].ev = "joined"
            /\ outbox[2].to = {s}
            /\ outbox[3].ev = "online_count"
            /\ outbox[3].to = Connected
            /\ outbox[3].data.count = Cardinality(DOMAIN usersBefore \cup {s})
            /\ EventsTo("system_message", s) = {}

\* A connection has joined while another connection is open.
C8_Witness ==
    /\ lastEvent.ev = "join"
    /\ Len(outbox) = 3
    /\ lastEvent.id \notin DOMAIN usersBefore
    /\ outbox[1].to # {}
    /\ outbox[3].data.count = 2

\* The name every event of the last handler that names the sender must carry
NameOfSender ==
    RefNormalized(IF lastEvent.ev = "disconnect" THEN lastEvent.was
                  ELSE joinedAs[lastEvent.id], NAME_MAX)

\* C9: every outbound event that names a participant (joined acknowledgment,
\* join notice, chat author, typing relay, leave notice) carries the
\* normalized name of that participant's most recent successful join, not
\* the raw name and not an earlier name.
C9_NormalizedNameEverywhere ==
    \A i \in 1..Len(outbox) :
        /\ outbox[i].ev = "joined" => outbox[i].data.name = NameOfSender
        /\ outbox[i].ev = "chat_message" => outbox[i].data.author = NameOfSender
        /\ outbox[i].ev = "typing" => outbox[i].data.name = NameOfSender
        /\ (outbox[i].ev = "system_message" /\ outbox[i].data.type = "join") =>
               outbox[i].data.text = NameOfSender \o <<JOIN_PHRASE>>
        /\ (outbox[i].ev = "system_message" /\ outbox[i].data.type = "leave") =>
               outbox[i].data.text = NameOfSender \o <<LEAVE_PHRASE>>

\* A connection that was joined under one name has joined again under the
\* long name, which validation cuts and trims, and is told its new name.
C9_Witness ==
    /\ lastEvent.ev = "join"
    /\ lastEvent.arg = JSString(LongRawName)
    /\ lastEvent.id \in DOMAIN usersBefore
    /\ Len(outbox) = 3
    /\ outbox[2].data.name # usersBefore[lastEvent.id].name
    /\ outbox[2].data.name # LongRawName
    /\ Len(outbox[2].data.name) = NAME_MAX - 1
    /\ outbox[1].to # {}

\* What sanitize, validateName or validateText returned is what the reference
\* gives, truncating first or truncating last.
SanitizeAgreesWith(truncateFirst) ==
    LET ref(s, n) == IF truncateFirst THEN RefTruncateCollapseTrim(s, n)
                     ELSE RefCollapseTrimTruncate(s, n)
    IN
    sanStr.t = "string" =>
        /\ sanResult.fn = "sanitize" => sanResult.v.s = ref(sanStr.s, sanMaxLen)
        /\ sanResult.fn = "validateName" =>
               (sanResult.v = JSNull) = (ref(sanStr.s, NAME_MAX) = <<>>)
        /\ sanResult.fn = "validateText" =>
               (sanResult.v = JSNull) = (ref(sanStr.s, TEXT_MAX) = <<>>)

\* C10 as stated: sanitize(str, maxLen) is str with its runs of whitespace
\* collapsed, then trimmed, then truncated to maxLen characters, and
\* validateName and validateText return null exactly when that is empty.
C10_CollapseTrimTruncate == SanitizeAgreesWith(FALSE)

\* C10 amended: sanitize(str, maxLen) is the first maxLen characters of str
\* with their runs of whitespace collapsed and then trimmed, and validateName
\* and validateText return null exactly when that is empty, and otherwise
\* return that string.
C10_TruncateCollapseTrim ==
    /\ SanitizeAgreesWith(TRUE)
    /\ (sanStr.t = "string" /\ sanResult.fn = "validateName" /\ sanResult.v # JSNull) =>
           sanResult.v = JSString(RefTruncateCollapseTrim(sanStr.s, NAME_MAX))
    /\ (sanStr.t = "string" /\ sanResult.fn = "validateText" /\ sanResult.v # JSNull) =>
           sanResult.v = JSString(RefTruncateCollapseTrim(sanStr.s, TEXT_MAX))

\* sanitize has cut a string inside a run of whitespace, where the two orders
\* differ.
C10_Witness ==
    /\ sanResult.fn = "sanitize"
    /\ sanStr.t = "string"
    /\ Len(sanStr.s) > sanMaxLen
    /\ sanResult.v.s # RefCollapseTrimTruncate(sanStr.s, sanMaxLen)
    /\ sanResult.v.s # <<>>

\* The boolean value of a flag a client sent
RefTruthy(v) ==
    v \notin {JSBool(FALSE), JSUndefined, JSNull, JSString(<<>>), JSNumber(0)}

\* C11: every typing event from a joined connection produces exactly one
\* typing event, to every connected connection (the sender included), with
\* the sender's registered name and the boolean value of its flag, also when
\* it repeats the event before it (no coalescing, no suppression); a typing
\* event from a connection that has not joined produces no outbound event.
C11_TypingRelay ==
    lastEvent.ev = "typing" =>
        IF lastEvent.id \in JoinedConnections
        THEN /\ Len(outbox) = 1
             /\ outbox[1].ev = "typing"
             /\ outbox[1].to = Connected
             /\ lastEvent.id \in outbox[1].to
             /\ outbox[1].data.name = usersBefore[lastEvent.id].name
             /\ outbox[1].data.isTyping = RefTruthy(lastEvent.arg)
             /\ outbox[1].data.id = lastEvent.id
        ELSE outbox = <<>>

\* A joined connection has sent typing(true) twice in a row while another
\* connection is open, and the second event is relayed like the first.
C11_Witness ==
    /\ lastEvent.ev = "typing"
    /\ lastEvent.again
    /\ lastEvent.arg = JSBool(TRUE)
    /\ lastEvent.id \in JoinedConnections
    /\ Cardinality(Connected) = 2
    /\ Len(outbox) = 1

\* C13: every error_message goes to exactly one connection, the one whose
\* inbound event caused it, and to no other.
C13_ErrorToOriginOnly ==
    \A i \in EventsOf("error_message") :
        /\ outbox[i].to = {lastEvent.id}
        /\ Cardinality(outbox[i].to) = 1
        /\ lastEvent.ev \in {"join", "chat_message"}

\* A joined connection has sent an invalid name while another connection is
\* joined too, and the error came back.
C13_Witness ==
    /\ lastEvent.ev = "join"
    /\ lastEvent.id \in DOMAIN users
    /\ Cardinality(DOMAIN users) = 2
    /\ EventsOf("error_message") = {1}

C16_ReJoin ==
    (/\ lastEvent.ev = "join"
     /\ lastEvent.id \in DOMAIN usersBefore
     /\ RefNormalized(lastEvent.arg, NAME_MAX) # <<>>) =>
        LET s == lastEvent.id
            name == RefNormalized(lastEvent.arg, NAME_MAX)
        IN  /\ DOMAIN users = DOMAIN usersBefore
            /\ Cardinality(DOMAIN users) = Cardinality(DOMAIN usersBefore)
            /\ users[s].name = name
            /\ OthersUntouched(s)
            /\ name = usersBefore[s].name => users = usersBefore

\* A participant has joined again under another name while a second
\* participant is in the registry.
C16_Witness ==
    /\ lastEvent.ev = "join"
    /\ lastEvent.id \in DOMAIN usersBefore
    /\ Cardinality(DOMAIN usersBefore) = 2
    /\ users[lastEvent.id].name # usersBefore[lastEvent.id].name
    /\ Len(outbox) = 3

\* C17: the name of every registry entry is not empty, has at most NAME_MAX
\* characters, neither starts nor ends with whitespace, and has no two
\* whitespace characters in a row.
C17_RegisteredNames ==
    \A k \in DOMAIN users :
        LET n == users[k].name
        IN  /\ n # <<>>
            /\ Len(n) <= NAME_MAX
            /\ n[1] \notin WhiteSpace
            /\ n[Len(n)] \notin WhiteSpace
            /\ \A i \in 1..(Len(n) - 1) :
                   ~(n[i] \in WhiteSpace /\ n[i + 1] \in WhiteSpace)

\* The registry holds a name cut from a raw name of more than NAME_MAX
\* characters and a name with whitespace collapsed inside it.
C17_Witness ==
    /\ \E k \in DOMAIN users : Len(users[k].name) = NAME_MAX - 1
    /\ \E k \in DOMAIN users : users[k].name = <<"a", " ", "b">>

\* C18: the registry changes only by a successful join, which sets exactly
\* the joiner's entry, and by a disconnect, which removes exactly that
\* connection's entry; chat messages, typing events, rejected joins and new
\* connections leave it as it was, and no event changes another connection's
\* entry.
C18_RegistryChanges ==
    lastEvent.ev # "none" =>
        LET s == lastEvent.id
        IN  /\ OthersUntouched(s)
            /\ lastEvent.ev \in {"connection", "chat_message", "typing"} =>
                   users = usersBefore
            /\ lastEvent.ev = "join" =>
                   LET name == RefNormalized(lastEvent.arg, NAME_MAX)
                   IN  IF name = <<>>
                       THEN users = usersBefore
                       ELSE /\ s \in DOMAIN users
                            /\ users[s].name = name
            /\ lastEvent.ev = "disconnect" => s \notin DOMAIN users

\* One of two participants has disconnected and the other is still in the
\* registry under its name.
C18_Witness ==
    /\ lastEvent.ev = "disconnect"
    /\ Cardinality(DOMAIN usersBefore) = 2
    /\ Cardinality(DOMAIN users) = 1
    /\ \A k \in DOMAIN users : users[k] = usersBefore[k]

\* C12 as stated: any two chat_message events broadcast for two different
\* accepted sends carry different ids, also when both are handled in the same
\* millisecond and when they come from different connections.
C12_IdsAlwaysDiffer ==
    \A i, j \in 1..Len(idLog) : i # j => idLog[i].id # idLog[j].id

\* C12, amended: the ids of two accepted sends differ whenever the two sends
\* differ in the value of Date.now() or in the random suffix drawn, whichever
\* connections sent them; they are equal when both values coincide.
C12_IdsDifferUnlessSameDraw ==
    \A i, j \in 1..Len(idLog) :
        i # j =>
            (idLog[i].id = idLog[j].id) =
                (idLog[i].now = idLog[j].now /\ idLog[i].rnd = idLog[j].rnd)

\* Two connections have each had a message broadcast in the same millisecond
\* with different suffixes, and the ids differ.
C12_Witness ==
    /\ Len(idLog) = 2
    /\ idLog[1].by # idLog[2].by
    /\ idLog[1].now = idLog[2].now
    /\ idLog[1].rnd # idLog[2].rnd
    /\ idLog[1].id # idLog[2].id

\* C14: when an emit throws while a join, chat_message, typing or disconnect
\* event is handled, the handler catches the fault, the connection the event
\* came from gets an error_message, and the registry is as it was before the
\* event (the event's broadcasts did not all go out, so its registry change
\* must not stand either).
C14_FaultCaughtRegistryWhole ==
    "fault" \in DOMAIN lastEvent =>
        /\ lastEvent.caught
        /\ \E i \in EventsOf("error_message") : outbox[i].to = {lastEvent.id}
        /\ users = usersBefore

\* The typing signals among what the listener of this step sends
TypingSignalsSent == {i \in 1..Len(clientSent') : clientSent'[i].ev = "typing"}

\* Each typing signal differs from the one sent before it since the transport
\* became ready, and no listener sends two.
SignalsAlternate ==
    /\ Cardinality(TypingSignalsSent) <= 1
    /\ \A i \in TypingSignalsSent :
           lastTypingSent # "none" =>
               SignalName(clientSent'[i].isTyping) # lastTypingSent

\* typing(true) is sent by the input listener only, and only when the client
\* is not marked typing; typing(false) is sent by the timer or by the submit
\* listener only.
SignalsByTheirListeners ==
    \A i \in TypingSignalsSent :
        IF clientSent'[i].isTyping
        THEN clientEvent' = "input" /\ ~typing
        ELSE clientEvent' \in {"timer", "submit"} /\ typing

\* A typing(true) that was sent is followed by a typing(false), or the
\* transport stops being ready.
TrueIsFollowedByFalse == (lastTypingSent = "true") ~> (lastTypingSent # "true")

\* C19 as stated: while the transport stays ready the typing signals sent
\* strictly alternate and the first is typing(true); typing(true) is sent by
\* an input event only when the client is not marked typing, and each is
\* eventually followed by one typing(false), sent by the debounce timer or by
\* the submit of the message form.
C19_AlternateFromTrue ==
    /\ [][/\ SignalsAlternate
          /\ SignalsByTheirListeners
          /\ \A i \in TypingSignalsSent :
                 lastTypingSent = "none" => clientSent'[i].isTyping]_vars
    /\ TrueIsFollowedByFalse

\* C19, amended: as above, but the first signal since the transport became
\* ready is typing(true) only if the client was not marked typing at that
\* moment; if it was (an input event fell while the transport was not ready,
\* so its typing(true) was dropped, and its timer is still pending), the
\* first signal is typing(false).
C19_AlternateFromStateAtReady ==
    /\ [][/\ SignalsAlternate
          /\ SignalsByTheirListeners
          /\ \A i \in TypingSignalsSent :
                 lastTypingSent = "none" =>
                     clientSent'[i].isTyping = ~typingAtReady]_vars
    /\ TrueIsFollowedByFalse

\* The transport became ready while the client was marked typing; the timer
\* has sent typing(false) first, and the next input event has sent
\* typing(true).
C19_Witness ==
    /\ Ready(transport)
    /\ typingAtReady
    /\ clientEvent = "input"
    /\ clientSent = <<[ev |-> "typing", isTyping |-> TRUE]>>
    /\ lastTypingSent = "true"

====
